---- MODULE Spec2Model ----
(***************************************************************************)
(* Account-research UI: the wizard (WizardContext.tsx, WizardLayout.tsx,   *)
(* steps/*.tsx), the task client (api/client.ts), the polling view         *)
(* (ProgressPage.tsx), the result viewer (ResultPage, src/unnamed/part_000)*)
(* and the history list (HistoryPage.tsx), as one state machine.           *)
(*                                                                         *)
(* Library behaviour the pages rely on is modelled where it is used:       *)
(*   - react-hook-form handleSubmit with a zod resolver: the handler runs  *)
(*     only with the parsed output of a successful schema parse;           *)
(*   - @tanstack/react-query: one cache entry per query key shared by all  *)
(*     observers, fetch de-duplication, `retry`, `refetchInterval`,        *)
(*     data retained on a failed refetch, structural sharing of data;      *)
(*   - react-router: navigate() changes the location; the page element is  *)
(*     swapped in a later commit (the pages are lazy-loaded under one      *)
(*     Suspense boundary), so timers of the old page can fire in between.  *)
(***************************************************************************)
EXTENDS Integers, Sequences, FiniteSets, TLC

\* ------------------------------------------------------------------ bounds
MaxNameLen   == 2   \* longest text typed into a text input
MaxSections  == 2   \* how many of AVAILABLE_SECTIONS are offered
MaxLanguages == 2   \* how many of the 10 languages the user picks among
MaxCreates   == 2   \* createTask requests in flight at once
MaxDownloads == 1   \* downloadPdf requests in flight at once
MaxProgress  == 100 \* largest progress value a snapshot reports

\* --------------------------------------------------------- optional values
\* JavaScript `undefined` / an absent JSON field is None, a present value v
\* is Some(v).
None    == <<>>
Some(v) == <<v>>
IsSome(o) == o # None
Val(o)  == o[1]

RECURSIVE Rep(_)
Rep(n) == IF n = 0 THEN "" ELSE "a" \o Rep(n - 1)

\* Texts a user can type into an input: every length 0..MaxNameLen.
Texts == { Rep(n) : n \in 0..MaxNameLen }

RECURSIVE SeqToSet(_)
SeqToSet(s) == IF s = <<>> THEN {} ELSE {Head(s)} \cup SeqToSet(Tail(s))

\* ------------------------------------------------------------- the schema
\* WizardContext.tsx:10
LanguageEnum ==
  <<"English", "Japanese", "Spanish", "French", "German",
    "Chinese", "Portuguese", "Italian", "Russian", "Korean">>

\* OptionsStep.tsx:5-14
AVAILABLE_SECTIONS ==
  <<"overview", "financials", "market", "competitors",
    "swot", "products", "management", "opportunities">>

SectionIds == { AVAILABLE_SECTIONS[i] : i \in 1..MaxSections }
Languages  == { LanguageEnum[i] : i \in 1..MaxLanguages }

\* z.string().min(2): the value must be a string (not undefined) of length
\* at least 2.
ZStringMinOffByOne_Mutant(o, n) == IsSome(o) /\ Len(Val(o)) >= n - 1
ZStringMin(o, n) == IsSome(o) /\ Len(Val(o)) >= n

\* z.enum([...]): the value must be one of the listed strings.
ZEnum(o, enum) == IsSome(o) /\ Val(o) \in SeqToSet(enum)

\* z.array(z.string()).default([]): undefined parses to [], a list parses to
\* itself.
ZArrayDefaultAll_Mutant(o) ==
  IF o = None \/ Val(o) = <<>> THEN SubSeq(AVAILABLE_SECTIONS, 1, MaxSections)
  ELSE Val(o)
ZArrayDefault(o) == IF o = None THEN <<>> ELSE Val(o)

\* wizardFormSchema.safeParse(values): success flag and parsed output.
wizardFormSchema(v) ==
  LET ok == /\ ZStringMin(v.targetCompany, 2)
            /\ ZStringMin(v.userCompany, 2)
            /\ ZEnum(v.language, LanguageEnum)
  IN [ success |-> ok,
       data    |-> IF ok
                   THEN Some([ targetCompany |-> Val(v.targetCompany),
                               userCompany   |-> Val(v.userCompany),
                               language      |-> Val(v.language),
                               sections      |-> ZArrayDefault(v.sections) ])
                   ELSE None ]

\* WizardProvider defaultValues (WizardContext.tsx:37-50): language English,
\* sections [], the two company names unset.
defaultValues ==
  [ targetCompany |-> None, userCompany |-> None,
    language |-> Some("English"), sections |-> Some(<<>>) ]

\* WizardLayout.tsx:12-16
steps == <<"target", "about", "options">>


\* ------------------------------------------------------------ the backend
\* api/client.ts:17 Task.status; "none" is an id the backend has not handed
\* out (GET /status/{id} answers 404 for it).
Retry == 1            \* App.tsx:10  retry: 1
NavCap == 2           \* counters of side effects saturate here (2 = "more than once")

\* The task ids in play; one task is followed through the pages.
TaskIds == {"t1"}
NoId == ""

Statuses == {"pending", "processing", "completed", "failed"}

\* The snapshots GET /status/{id} can return for a task in backend status s
\* (api/client.ts:16-24): progress is optional, error is present only when
\* the status is failed (and may be the empty string).
Snapshots(s) ==
  CASE s = "pending"    -> { [status |-> s, progress |-> p, error |-> None] :
                               p \in {None} }
    [] s = "processing" -> { [status |-> s, progress |-> p, error |-> None] :
                               p \in {Some(45)} }
    [] s = "completed"  -> { [status |-> s, progress |-> p, error |-> None] :
                               p \in {None, Some(100)} }
    [] s = "failed"     -> { [status |-> s, progress |-> None, error |-> e] :
                               e \in {None, Some(""), Some("X")} }
    [] OTHER            -> {}

\* Task.status only moves forward (spec section 3); the backend is outside
\* the repository and is modelled by this order alone.
StatusAfter(s) ==
  CASE s = "pending"    -> {"processing", "failed"}
    [] s = "processing" -> {"completed", "failed"}
    [] OTHER            -> {}

\* ------------------------------------------------------------------ state
VARIABLES
  location,        \* the router's location: [page, id]
  mounted,         \* the page element currently mounted: [page, id]
  storage,         \* localStorage["userInfo"]: None or Some(profile)
  backend,         \* backend status of each task id
  currentStep,     \* WizardLayout useState(0)
  values,          \* react-hook-form values of the wizard
  isSubmitting,    \* WizardForm useState(false)
  createPending,   \* createTask requests in flight
  hasUserInfo,     \* ProgressPage useState(false)
  userInfoDialogOpen, \* ProgressPage useState(true)
  taskQuery,       \* react-query cache entries ['task', id]
  pdfUrl,          \* ResultPage useState(null)
  pdfError,        \* ResultPage useState(false)
  pdfPending,      \* downloadPdf requests in flight
  tasksQuery,      \* react-query cache entry ['tasks']
  navCount,        \* navigate(/task/id/result) calls of the mounted ProgressPage
  previewFetches,  \* loadPdf calls of the mounted ResultPage
  savedFiles,      \* names of the files the download action saved
  objectUrls,      \* object URLs created by ResultPage and not yet revoked
  ev,              \* the side effects the last step performed
  run              \* position in the end-to-end scenario, -1 once left

routerVars == <<location, mounted>>
envVars    == <<storage, backend>>
wizVars    == <<currentStep, values, isSubmitting>>
progVars   == <<hasUserInfo, userInfoDialogOpen, navCount>>
resVars    == <<pdfUrl, pdfError, previewFetches>>
vars == <<location, mounted, storage, backend, currentStep, values,
          isSubmitting, createPending, hasUserInfo, userInfoDialogOpen,
          taskQuery, pdfUrl, pdfError, pdfPending, tasksQuery,
          navCount, previewFetches, savedFiles, objectUrls, ev, run>>

Route(p, id) == [page |-> p, id |-> id]
NoPage == Route("none", NoId)
Event(op, id, x) == [op |-> op, id |-> id, x |-> x]
Bump(n) == IF n < NavCap THEN n + 1 ELSE n

\* ------------------------------------------------------ react-query entry
\* One cache entry: data (kept on a failed refetch), the latched error, the
\* fetch status ("idle", "inflight": a request is on the wire, "retryWait":
\* a failed request waits for its retry), the failure count of the current
\* fetch and the retryer's cancelRetry flag.
EmptyQuery ==
  [ data |-> None, error |-> FALSE, fetchStatus |-> "idle",
    failureCount |-> 0, retryCancelled |-> FALSE ]

\* Query.fetch(): a fetch already running is reused (continueRetry), else a
\* request is issued; the error is cleared at fetch start only when there
\* is no data yet.
StartFetch(q) ==
  IF q.fetchStatus # "idle"
  THEN [q EXCEPT !.retryCancelled = FALSE]
  ELSE [q EXCEPT !.fetchStatus = "inflight", !.failureCount = 0,
                 !.retryCancelled = FALSE,
                 !.error = IF q.data = None THEN FALSE ELSE q.error]

\* Query.removeObserver() of the last observer: cancelRetry() on a running
\* fetch (the request itself is not aborted).
RemoveObserver(q) ==
  IF q.fetchStatus # "idle" THEN [q EXCEPT !.retryCancelled = TRUE] ELSE q

\* The retryer on a failed request: retried while failureCount < retry and
\* retries are not cancelled, else the error is latched; data is kept.
OnFetchFailure(q) ==
  IF q.failureCount < Retry /\ ~q.retryCancelled
  THEN [q EXCEPT !.fetchStatus = "retryWait",
                 !.failureCount = q.failureCount + 1]
  ELSE [q EXCEPT !.fetchStatus = "idle", !.error = TRUE]

\* The reducer on success: data replaced (structural sharing keeps the same
\* reference, here the same value, when the snapshot is deep-equal), error
\* cleared.
OnFetchSuccessKeepFirst_Mutant(q, snap) ==
  [q EXCEPT !.data = IF q.data = None THEN Some(snap) ELSE q.data,
            !.error = FALSE, !.fetchStatus = "idle", !.failureCount = 0]
OnFetchSuccess(q, snap) ==
  [q EXCEPT !.data = Some(snap), !.error = FALSE, !.fetchStatus = "idle",
            !.failureCount = 0]


\* ------------------------------------------------------------ derived views
HasTask(q)    == IsSome(q.data)
TaskStatus(q) == IF HasTask(q) THEN Val(q.data).status ELSE "undefined"

\* ProgressPage.tsx:179: error || task?.status === 'failed'
ProgressView(q) ==
  IF q.error \/ TaskStatus(q) = "failed" THEN "failed" ELSE "progress"

\* ProgressPage.tsx:185: task?.error || '<default message>'
DefaultMessage ==
  "An error occurred while processing your request. Please try again."
FailureMessageNullish_Mutant(q) ==
  IF HasTask(q) /\ IsSome(Val(q.data).error)
  THEN Val(Val(q.data).error)
  ELSE DefaultMessage
FailureMessage(q) ==
  IF HasTask(q) /\ IsSome(Val(q.data).error) /\ Val(Val(q.data).error) # ""
  THEN Val(Val(q.data).error)
  ELSE DefaultMessage

\* ProgressPage.tsx:102-107: `task?.progress && task.progress > n` is false
\* for an absent task, an absent progress and progress 0.
ProgressAbove(task, n) ==
  /\ IsSome(task) /\ IsSome(Val(task).progress)
  /\ Val(Val(task).progress) # 0
  /\ Val(Val(task).progress) > n

AnalysisStatusUntilReport_Mutant(task) ==
  IF ProgressAbove(task, 30) /\ ~ProgressAbove(task, 70)
  THEN "processing" ELSE "pending"
AnalysisStatus(task) ==
  IF ProgressAbove(task, 30) THEN "processing" ELSE "pending"

taskLogs(task) ==
  << [id |-> "init", label |-> "Initializing task", status |-> "completed"],
     [id |-> "data", label |-> "Gathering company data",
      status |-> IF IsSome(task) /\ Val(task).status = "pending"
                 THEN "pending" ELSE "processing"],
     [id |-> "analysis", label |-> "Running analysis",
      status |-> AnalysisStatus(task)],
     [id |-> "report", label |-> "Generating report",
      status |-> IF ProgressAbove(task, 70) THEN "processing" ELSE "pending"] >>

\* ResultPage (part_000:70-98): isLoading is "no data, no error, fetching".
ResultView(q) ==
  IF ~HasTask(q) /\ ~q.error /\ q.fetchStatus # "idle" THEN "loading"
  ELSE IF q.error \/ TaskStatus(q) = "failed" THEN "error"
  ELSE "main"

\* part_000:113-156: the preview pane of the main view is chosen from pdfUrl
\* and pdfError alone; nothing in the main view depends on task.status.
PreviewPane(url, err) ==
  IF IsSome(url) THEN "document"
  ELSE IF err THEN "failed"
  ELSE "loading"

\* What ResultPage presents: the view and, in the main view, the pane.
ResultScreen(q, url, err) ==
  IF ResultView(q) = "main"
  THEN <<"main", PreviewPane(url, err)>>
  ELSE <<ResultView(q), "-">>

\* part_000:60
DownloadName(id) == "account-research-" \o id \o ".pdf"

OnPage(p) == mounted.page = p /\ location = mounted
QueryOf(id) == taskQuery[id]
Issued(old, new) == new.fetchStatus = "inflight" /\ old.fetchStatus # "inflight"

\* ---------------------------------------------------------------- profile
\* ProgressPage.tsx:28-32 userInfoSchema; name and designation are sampled
\* around their minimum length, z.string().email() is modelled on the
\* sample addresses below.
Names == {"", "a", "aa"}
Emails == {"", "a@b", "a@b.co"}
ZEmail(e) == e \in {"a@b.co"}
Profiles == [name : Names, email : Emails, designation : Names]
userInfoSchemaNoEmail_Mutant(p) ==
  /\ ZStringMin(Some(p.name), 2)
  /\ ZStringMin(Some(p.designation), 2)
userInfoSchema(p) ==
  /\ ZStringMin(Some(p.name), 2)
  /\ ZEmail(p.email)
  /\ ZStringMin(Some(p.designation), 2)

\* ------------------------------------------------------------------ wizard
\* register(): a text input mounted with no value puts its DOM value "" into
\* the form values.
RegisterStep(v, step) ==
  CASE step = 0 /\ v.targetCompany = None -> [v EXCEPT !.targetCompany = Some("")]
    [] step = 1 /\ v.userCompany = None   -> [v EXCEPT !.userCompany = Some("")]
    [] OTHER -> v

\* formState.isValid with a resolver: the whole schema over all values.
IsValid == wizardFormSchema(values).success

\* OptionsStep.tsx:21-28
handleSectionToggleAddOnly_Mutant(cur, sectionId) == Append(cur, sectionId)
handleSectionToggle(cur, sectionId) ==
  IF sectionId \in SeqToSet(cur)
  THEN SelectSeq(cur, LAMBDA x : x # sectionId)
  ELSE Append(cur, sectionId)


\* ------------------------------------------------------------------ router
Pages == {"landing", "generate", "progress", "result", "history"}
Routes ==
  { Route(p, NoId) : p \in {"landing", "generate", "history"} }
    \cup { Route(p, id) : p \in {"progress", "result"}, id \in TaskIds }

Kill(reqs) == [i \in 1..Len(reqs) |-> [reqs[i] EXCEPT !.live = FALSE]]

\* After the wizard is unmounted a createTask request still in flight still
\* navigates when it resolves (WizardLayout.tsx:39-40) but no longer
\* touches isSubmitting.
\* After ResultPage is unmounted a preview request still in flight has no
\* effect on component state (setPdfUrl / setPdfError of an unmounted
\* component) and is dropped here, so the object URL it would still create
\* is not counted in objectUrls; a download request still saves its file.
KillPdf(reqs) == Kill(SelectSeq(reqs, LAMBDA r : r.kind = "download"))

\* The cache after the page `old` is unmounted: its query observer is
\* removed (ProgressPage and ResultPage observe ['task', id], HistoryPage
\* observes ['tasks']).
TaskQueryAfterUnmount(old) ==
  IF old.page \in {"progress", "result"}
  THEN [taskQuery EXCEPT ![old.id] = RemoveObserver(@)]
  ELSE taskQuery
\* The ['tasks'] entry is taken to be collected as soon as HistoryPage is
\* unmounted; a request in flight then has no one to answer to.
TasksQueryAfterUnmount(old) ==
  IF old.page = "history" THEN EmptyQuery ELSE tasksQuery

\* Mounting the page element of route `new` on top of the cache tq/tsq and
\* the requests in flight cp/pp: initial useState values, the mount effects
\* and the observers' fetch on mount.
\*   ProgressPage.tsx:55-65  profile check; :84-90 query enabled only with
\*     id and hasUserInfo; :93-99 completion effect on a cached snapshot.
\*   ResultPage part_000:21-28 query (staleTime Infinity: fetched on mount
\*     only when there is no data); :31-46 loadPdf effect.
\*   HistoryPage.tsx:50-55.
Mount(new, tq, tsq, cp, pp, evs) ==
  LET id   == new.id
      q    == IF id \in TaskIds THEN tq[id] ELSE EmptyQuery
      info == IsSome(storage)
      done == TaskStatus(q) = "completed"
      prog == new.page = "progress"
      res  == new.page = "result"
      fetch == q.data = None /\ ((prog /\ info) \/ res)
      tq2  == IF fetch THEN [tq EXCEPT ![id] = StartFetch(q)] ELSE tq
      tsq2 == IF new.page = "history" /\ tsq.data = None
              THEN StartFetch(tsq) ELSE tsq
  IN
  /\ mounted' = new
  /\ location' = IF prog /\ done THEN Route("result", id) ELSE new
  /\ currentStep' = 0
  /\ values' = IF new.page = "generate"
               THEN RegisterStep(defaultValues, 0) ELSE defaultValues
  /\ isSubmitting' = FALSE
  /\ createPending' = cp
  /\ hasUserInfo' = (prog /\ info)
  /\ userInfoDialogOpen' = (prog /\ ~info)
  /\ taskQuery' = tq2
  /\ tasksQuery' = tsq2
  /\ navCount' = IF prog /\ done THEN 1 ELSE 0
  /\ pdfUrl' = None
  /\ pdfError' = FALSE
  /\ previewFetches' = IF res /\ done THEN 1 ELSE 0
  /\ pdfPending' = IF res /\ done
                   THEN Append(pp, [kind |-> "preview", id |-> id, live |-> TRUE])
                   ELSE pp
  /\ ev' = evs
           \cup (IF fetch /\ Issued(q, tq2[id])
                 THEN {Event("getTaskStatus", id, new.page)} ELSE {})
           \cup (IF prog /\ done THEN {Event("navigate", id, "result")} ELSE {})
           \cup (IF res /\ done THEN {Event("downloadPdf", id, "preview")} ELSE {})
           \cup (IF Issued(tsq, tsq2) THEN {Event("listTasks", NoId, "mount")} ELSE {})

\* The router commits a changed location: the old page element is unmounted
\* and the new one mounted (routes, ProgressPage.tsx:239-265).
CommitRoute ==
  /\ mounted # location
  /\ Mount(location, TaskQueryAfterUnmount(mounted),
           TasksQueryAfterUnmount(mounted), Kill(createPending),
           KillPdf(pdfPending), {Event("unmount", mounted.id, mounted.page)})
  /\ UNCHANGED <<storage, backend, savedFiles, objectUrls>>

\* The user opens a URL of the app: a new document. In-memory state (query
\* cache, component state, requests in flight, object URLs of the old
\* document) is gone, localStorage stays.
OpenUrl(r) ==
  /\ Mount(r, [id \in TaskIds |-> EmptyQuery], EmptyQuery, <<>>, <<>>,
           {Event("openUrl", r.id, r.page)})
  /\ objectUrls' = 0
  /\ UNCHANGED <<storage, backend, savedFiles>>

\* Links and buttons that only navigate: AppShell.tsx:18-37 (Home, History),
\* LandingPage part_001:25, ProgressPage.tsx:189 (Start New Request, in the
\* failure view), ResultPage part_000:91 and :193, HistoryPage.tsx:143.
CanNavigate(p) ==
  \/ p \in {"landing", "history"}
  \/ /\ p = "generate"
     /\ \/ mounted.page = "landing"
        \/ mounted.page = "progress" /\ ProgressView(QueryOf(mounted.id)) = "failed"
        \/ mounted.page = "result" /\ ResultView(QueryOf(mounted.id)) # "loading"
        \/ mounted.page = "history" /\ ~tasksQuery.error /\ IsSome(tasksQuery.data)
             /\ \A id \in TaskIds : Val(tasksQuery.data)[id] = "none"

ClickLink(p) ==
  /\ mounted = location
  /\ mounted.page # "none"
  /\ CanNavigate(p)
  /\ location' = Route(p, NoId)
  /\ ev' = {}
  /\ UNCHANGED <<mounted, envVars, wizVars, createPending, progVars, taskQuery,
                 resVars, pdfPending, tasksQuery, savedFiles, objectUrls>>


\* ----------------------------------------------------------- wizard steps
\* TargetCompanyStep.tsx:17, AboutYouStep.tsx:17, OptionsStep.tsx:39:
\* register() writes the input's value into the form values on change.
TypeTargetCompany(t) ==
  /\ OnPage("generate") /\ currentStep = 0
  /\ values' = [values EXCEPT !.targetCompany = Some(t)]
  /\ ev' = {}
  /\ UNCHANGED <<routerVars, envVars, currentStep, isSubmitting, createPending,
                 progVars, taskQuery, resVars, pdfPending, tasksQuery, savedFiles,
                 objectUrls>>

TypeUserCompany(t) ==
  /\ OnPage("generate") /\ currentStep = 1
  /\ values' = [values EXCEPT !.userCompany = Some(t)]
  /\ ev' = {}
  /\ UNCHANGED <<routerVars, envVars, currentStep, isSubmitting, createPending,
                 progVars, taskQuery, resVars, pdfPending, tasksQuery, savedFiles,
                 objectUrls>>

SelectLanguage(l) ==
  /\ OnPage("generate") /\ currentStep = 2
  /\ values' = [values EXCEPT !.language = Some(l)]
  /\ ev' = {}
  /\ UNCHANGED <<routerVars, envVars, currentStep, isSubmitting, createPending,
                 progVars, taskQuery, resVars, pdfPending, tasksQuery, savedFiles,
                 objectUrls>>

\* OptionsStep.tsx:21-28 behind the checkbox of one section (:70).
ToggleSection(sectionId) ==
  /\ OnPage("generate") /\ currentStep = 2
  /\ values' = [values EXCEPT !.sections =
                  Some(handleSectionToggle(ZArrayDefault(@), sectionId))]
  /\ ev' = {Event("toggleSection", NoId, sectionId)}
  /\ UNCHANGED <<routerVars, envVars, currentStep, isSubmitting, createPending,
                 progVars, taskQuery, resVars, pdfPending, tasksQuery, savedFiles,
                 objectUrls>>

\* WizardLayout.tsx:24-28 behind the Next button (:69-77), which is
\* rendered before the last step and disabled while !formState.isValid.
handleNextUnbounded_Mutant ==
  /\ OnPage("generate")
  /\ IsValid
  /\ currentStep' = currentStep + 1
  /\ values' = RegisterStep(values, currentStep + 1)
  /\ ev' = {Event("setCurrentStep", NoId, "next")}
  /\ UNCHANGED <<routerVars, envVars, isSubmitting, createPending,
                 progVars, taskQuery, resVars, pdfPending, tasksQuery, savedFiles,
                 objectUrls>>
handleNext ==
  /\ OnPage("generate")
  /\ currentStep < Len(steps) - 1
  /\ IsValid
  /\ currentStep' = currentStep + 1
  /\ values' = RegisterStep(values, currentStep + 1)
  /\ ev' = {Event("setCurrentStep", NoId, "next")}
  /\ UNCHANGED <<routerVars, envVars, isSubmitting, createPending,
                 progVars, taskQuery, resVars, pdfPending, tasksQuery, savedFiles,
                 objectUrls>>

\* WizardLayout.tsx:30-34 behind the Back button (:60-67), disabled on the
\* first step.
handleBackWhenValid_Mutant ==
  /\ OnPage("generate")
  /\ currentStep > 0
  /\ IsValid
  /\ currentStep' = currentStep - 1
  /\ values' = RegisterStep(values, currentStep - 1)
  /\ ev' = {Event("setCurrentStep", NoId, "back")}
  /\ UNCHANGED <<routerVars, envVars, isSubmitting, createPending,
                 progVars, taskQuery, resVars, pdfPending, tasksQuery, savedFiles,
                 objectUrls>>
handleBack ==
  /\ OnPage("generate")
  /\ currentStep > 0
  /\ currentStep' = currentStep - 1
  /\ values' = RegisterStep(values, currentStep - 1)
  /\ ev' = {Event("setCurrentStep", NoId, "back")}
  /\ UNCHANGED <<routerVars, envVars, isSubmitting, createPending,
                 progVars, taskQuery, resVars, pdfPending, tasksQuery, savedFiles,
                 objectUrls>>

\* The form's submit event. On the last step it comes from the Submit
\* button (WizardLayout.tsx:78-86, disabled while !isValid || isSubmitting);
\* on the first two steps the form shows a single text input and no submit
\* button, so Enter in that input submits the form.
CanSubmitEvent ==
  \/ currentStep = Len(steps) - 1 /\ IsValid /\ ~isSubmitting
  \/ currentStep < Len(steps) - 1

\* WizardContext.tsx:54-62 onSubmit -> methods.handleSubmit(handler):
\* the resolver parses the values; only on success the handler
\* (WizardLayout.tsx:36-45) runs with the parsed data: setIsSubmitting(true)
\* and api.createTask(data), i.e. POST /generate with data as the body
\* (api/client.ts:31-34).
Resolve(v) == wizardFormSchema(v)

\* api/client.ts:31-34: axios posts the payload as its JSON text.
RECURSIVE JsonList(_)
JsonList(l) ==
  IF l = <<>> THEN ""
  ELSE "\"" \o Head(l) \o "\"" \o (IF Tail(l) = <<>> THEN "" ELSE ",")
       \o JsonList(Tail(l))
JsonBody(d) ==
  "{\"targetCompany\":\"" \o d.targetCompany
    \o "\",\"userCompany\":\"" \o d.userCompany
    \o "\",\"language\":\"" \o d.language
    \o "\",\"sections\":[" \o JsonList(d.sections) \o "]}"

SubmitForm ==
  /\ OnPage("generate")
  /\ CanSubmitEvent
  /\ LET parsed == Resolve(values) IN
       IF parsed.success
       THEN /\ Len(createPending) < MaxCreates
            /\ isSubmitting' = TRUE
            /\ createPending' =
                 Append(createPending, [live |-> TRUE])
            /\ ev' = {Event("submit", NoId, ""),
                      Event("createTask", NoId, JsonBody(Val(parsed.data)))}
       ELSE /\ UNCHANGED <<isSubmitting, createPending>>
            /\ ev' = {Event("submit", NoId, "")}
  /\ UNCHANGED <<routerVars, envVars, currentStep, values,
                 progVars, taskQuery, resVars, pdfPending, tasksQuery, savedFiles,
                 objectUrls>>

Remove(reqs, i) == SubSeq(reqs, 1, i - 1) \o SubSeq(reqs, i + 1, Len(reqs))

\* WizardLayout.tsx:39-40: createTask resolved with { task_id }, then
\* navigate(`/task/${task_id}`). The backend hands out an unused id.
CreateTaskResolve(i, id) ==
  /\ i \in 1..Len(createPending)
  /\ backend[id] = "none"
  /\ backend' = [backend EXCEPT ![id] = "pending"]
  /\ createPending' = Remove(createPending, i)
  /\ location' = Route("progress", id)
  /\ ev' = {Event("navigate", id, "progress")}
  /\ UNCHANGED <<mounted, storage, wizVars, progVars, taskQuery, resVars,
                 pdfPending, tasksQuery, savedFiles, objectUrls>>

\* WizardLayout.tsx:41-44: createTask rejected: logged, setIsSubmitting(false).
CreateTaskRejectKeepsFlag_Mutant(i) ==
  /\ i \in 1..Len(createPending)
  /\ createPending' = Remove(createPending, i)
  /\ isSubmitting' = isSubmitting
  /\ ev' = {Event("createTaskRejected", NoId,
                 IF createPending[i].live THEN "live" ELSE "dead")}
  /\ UNCHANGED <<routerVars, envVars, currentStep, values, progVars, taskQuery,
                 resVars, pdfPending, tasksQuery, savedFiles, objectUrls>>
CreateTaskReject(i) ==
  /\ i \in 1..Len(createPending)
  /\ createPending' = Remove(createPending, i)
  /\ isSubmitting' = IF createPending[i].live THEN FALSE ELSE isSubmitting
  /\ ev' = {Event("createTaskRejected", NoId,
                 IF createPending[i].live THEN "live" ELSE "dead")}
  /\ UNCHANGED <<routerVars, envVars, currentStep, values, progVars, taskQuery,
                 resVars, pdfPending, tasksQuery, savedFiles, objectUrls>>


\* ------------------------------------------------------------ polling view
\* ProgressPage.tsx:77-81 behind handleSubmit(onSubmit) of the profile form
\* (:124): onSubmit runs only when userInfoSchema accepts the data. The
\* query becomes enabled and, having no data, fetches at once.
ProfileSubmit(p) ==
  /\ OnPage("progress")
  /\ userInfoDialogOpen
  /\ LET id == mounted.id
         q  == QueryOf(id)
         q2 == IF q.data = None THEN StartFetch(q) ELSE q
     IN IF userInfoSchema(p)
        THEN /\ storage' = Some(p)
             /\ hasUserInfo' = TRUE
             /\ userInfoDialogOpen' = FALSE
             /\ taskQuery' = [taskQuery EXCEPT ![id] = q2]
             /\ ev' = {Event("setItem", id, "userInfo")}
                      \cup (IF Issued(q, q2)
                            THEN {Event("getTaskStatus", id, "enable")} ELSE {})
        ELSE /\ UNCHANGED <<storage, hasUserInfo, userInfoDialogOpen, taskQuery>>
             /\ ev' = {}
  /\ UNCHANGED <<routerVars, backend, wizVars, createPending, navCount,
                 resVars, pdfPending, tasksQuery, savedFiles, objectUrls>>

\* ProgressPage.tsx:115: onOpenChange={setUserInfoDialogOpen}; Escape or a
\* click outside closes the dialog.
DismissDialog ==
  /\ OnPage("progress")
  /\ userInfoDialogOpen
  /\ userInfoDialogOpen' = FALSE
  /\ ev' = {}
  /\ UNCHANGED <<routerVars, envVars, wizVars, createPending, hasUserInfo,
                 navCount, taskQuery, resVars, pdfPending, tasksQuery, savedFiles,
                 objectUrls>>

\* ProgressPage.tsx:87-88: refetchInterval 3000 while the query is enabled
\* (id and hasUserInfo); the interval does not look at the query's error or
\* at the task's status. It runs as long as the page element is mounted.
QueryEnabled == mounted.page = "progress" /\ hasUserInfo

RefetchTickUntilError_Mutant ==
  /\ QueryEnabled
  /\ ~QueryOf(mounted.id).error
  /\ LET id == mounted.id
         q  == QueryOf(id)
         q2 == StartFetch(q)
     IN /\ q2 # q
        /\ taskQuery' = [taskQuery EXCEPT ![id] = q2]
        /\ ev' = IF Issued(q, q2)
                 THEN {Event("getTaskStatus", id, "tick")}
                 ELSE {}
  /\ UNCHANGED <<routerVars, envVars, wizVars, createPending, progVars,
                 resVars, pdfPending, tasksQuery, savedFiles, objectUrls>>
RefetchTick ==
  /\ QueryEnabled
  /\ LET id == mounted.id
         q  == QueryOf(id)
         q2 == StartFetch(q)
     IN /\ q2 # q
        /\ taskQuery' = [taskQuery EXCEPT ![id] = q2]
        /\ ev' = IF Issued(q, q2)
                 THEN {Event("getTaskStatus", id, "tick")}
                 ELSE {}
  /\ UNCHANGED <<routerVars, envVars, wizVars, createPending, progVars,
                 resVars, pdfPending, tasksQuery, savedFiles, objectUrls>>

\* ProgressPage.tsx:93-99: the completion effect runs after a render in
\* which `task` changed; it navigates when the snapshot is completed.
CompletionEffectAnyStatus_Mutant(id, old, new) ==
  /\ mounted = Route("progress", id)
  /\ new.data # old.data
CompletionEffectOnProgress_Mutant(id, old, new) ==
  /\ mounted = Route("progress", id)
  /\ new.data # old.data
  /\ TaskStatus(new) = "completed" \/ ProgressAbove(new.data, 99)
CompletionEffect(id, old, new) ==
  /\ mounted = Route("progress", id)
  /\ new.data # old.data
  /\ TaskStatus(new) = "completed"

\* ResultPage part_000:31-46: the effect with deps [id, task] calls loadPdf
\* when the snapshot is completed.
LoadPdfEffect(id, old, new) ==
  /\ mounted = Route("result", id)
  /\ new.data # old.data
  /\ TaskStatus(new) = "completed"

\* The status and progress of a snapshot as text, and how a resolved
\* snapshot relates to the one held before it.
SnapKey(snap) ==
  snap.status \o "/" \o
    (IF snap.progress = None THEN "-" ELSE ToString(Val(snap.progress)))
DataChange(q, snap) ==
  IF q.data = None THEN "first"
  ELSE IF SnapKey(Val(q.data)) = SnapKey(snap) THEN "same"
  ELSE "replaced"

\* api.getTaskStatus resolved (api/client.ts:39-42) with a snapshot of the
\* task; the observers of ['task', id] re-render and run their effects.
StatusAnswer(id, snap) ==
  /\ QueryOf(id).fetchStatus = "inflight"
  /\ LET q  == QueryOf(id)
         q2 == OnFetchSuccess(q, snap)
         nav == CompletionEffect(id, q, q2)
         pdf == LoadPdfEffect(id, q, q2)
     IN /\ taskQuery' = [taskQuery EXCEPT ![id] = q2]
        /\ location' = IF nav THEN Route("result", id) ELSE location
        /\ navCount' = IF nav THEN Bump(navCount) ELSE navCount
        /\ previewFetches' = IF pdf THEN Bump(previewFetches) ELSE previewFetches
        /\ pdfPending' = IF pdf
                         THEN Append(pdfPending,
                                [kind |-> "preview", id |-> id, live |-> TRUE])
                         ELSE pdfPending
        /\ ev' = {Event("taskStatus", id, SnapKey(snap)),
                  Event("taskData", id, DataChange(q, snap))}
                 \cup (IF nav THEN {Event("navigate", id, "result")} ELSE {})
                 \cup (IF pdf THEN {Event("downloadPdf", id, "preview")} ELSE {})
  /\ UNCHANGED <<mounted, envVars, wizVars, createPending, hasUserInfo,
                 userInfoDialogOpen, pdfUrl, pdfError, tasksQuery, savedFiles,
                 objectUrls>>

GetStatusResolve(id, snap) ==
  /\ snap \in Snapshots(backend[id])
  /\ StatusAnswer(id, snap)

\* api.getTaskStatus rejected: timeout (api/client.ts:7), network error or a
\* 4xx/5xx answer; the retryer decides between a retry and latching.
GetStatusReject(id) ==
  /\ QueryOf(id).fetchStatus = "inflight"
  /\ taskQuery' = [taskQuery EXCEPT ![id] = OnFetchFailure(@)]
  /\ ev' = {}
  /\ UNCHANGED <<routerVars, envVars, wizVars, createPending, progVars,
                 resVars, pdfPending, tasksQuery, savedFiles, objectUrls>>

\* The retryer's delay elapsed (App.tsx:10): the request is issued again,
\* unless the retry was cancelled meanwhile, in which case the error is
\* latched.
RetryFetch(id) ==
  /\ QueryOf(id).fetchStatus = "retryWait"
  /\ IF QueryOf(id).retryCancelled
     THEN /\ taskQuery' = [taskQuery EXCEPT ![id].fetchStatus = "idle",
                                            ![id].error = TRUE]
          /\ ev' = {}
     ELSE /\ taskQuery' = [taskQuery EXCEPT ![id].fetchStatus = "inflight"]
          /\ ev' = {Event("getTaskStatus", id, "retry")}
  /\ UNCHANGED <<routerVars, envVars, wizVars, createPending, progVars,
                 resVars, pdfPending, tasksQuery, savedFiles, objectUrls>>

\* An idle cache entry without observers is garbage-collected.
QueryGc(id) ==
  /\ ~(mounted.page \in {"progress", "result"} /\ mounted.id = id)
  /\ QueryOf(id).fetchStatus = "idle"
  /\ QueryOf(id) # EmptyQuery
  /\ taskQuery' = [taskQuery EXCEPT ![id] = EmptyQuery]
  /\ ev' = {}
  /\ UNCHANGED <<routerVars, envVars, wizVars, createPending, progVars,
                 resVars, pdfPending, tasksQuery, savedFiles, objectUrls>>


\* ------------------------------------------------------------ result viewer
Downloads(reqs) == { i \in 1..Len(reqs) : reqs[i].kind = "download" }

\* ResultPage part_000:54-68 behind the Download PDF button (:159-164),
\* which is part of the main view.
DownloadAvailable(q) == ResultView(q) = "main"

handleDownload ==
  /\ OnPage("result")
  /\ DownloadAvailable(QueryOf(mounted.id))
  /\ Cardinality(Downloads(pdfPending)) < MaxDownloads
  /\ pdfPending' = Append(pdfPending,
                     [kind |-> "download", id |-> mounted.id, live |-> TRUE])
  /\ ev' = {Event("downloadPdf", mounted.id, "download")}
  /\ UNCHANGED <<routerVars, envVars, wizVars, createPending, progVars,
                 taskQuery, resVars, tasksQuery, savedFiles, objectUrls>>

\* api.downloadPdf resolved (api/client.ts:47-52); GET /result/{id}/pdf
\* answers with the blob only for a completed task. The preview path
\* creates an object URL and keeps it in pdfUrl (part_000:34-36); nothing
\* revokes it, neither when pdfUrl is replaced nor when the page unmounts.
\* The download path creates an object URL, saves the blob as
\* account-research-{id}.pdf and revokes the URL in the same synchronous
\* block (part_000:56-64).
PdfResolve(i) ==
  /\ i \in 1..Len(pdfPending)
  /\ backend[pdfPending[i].id] = "completed"
  /\ LET r == pdfPending[i] IN
       /\ pdfPending' = Remove(pdfPending, i)
       /\ pdfUrl' = IF r.kind = "preview" /\ r.live THEN Some("blob:") ELSE pdfUrl
       /\ savedFiles' = IF r.kind = "download"
                        THEN savedFiles \cup {DownloadName(r.id)} ELSE savedFiles
       /\ objectUrls' = IF r.kind = "preview" THEN Bump(objectUrls) ELSE objectUrls
       /\ ev' = {}
  /\ UNCHANGED <<routerVars, envVars, wizVars, createPending, progVars,
                 taskQuery, pdfError, previewFetches, tasksQuery>>

\* api.downloadPdf rejected: part_000:37-40 sets pdfError on the preview
\* path, part_000:65-67 only logs on the download path.
PdfReject(i) ==
  /\ i \in 1..Len(pdfPending)
  /\ LET r == pdfPending[i] IN
       /\ pdfPending' = Remove(pdfPending, i)
       /\ pdfError' = IF r.kind = "preview" /\ r.live THEN TRUE ELSE pdfError
       /\ ev' = {}
  /\ UNCHANGED <<routerVars, envVars, wizVars, createPending, progVars,
                 taskQuery, pdfUrl, previewFetches, tasksQuery, savedFiles,
                 objectUrls>>

\* part_000:117: the fetched document fails to render.
DocumentLoadError ==
  /\ mounted.page = "result"
  /\ ResultView(QueryOf(mounted.id)) = "main"
  /\ IsSome(pdfUrl)
  /\ ~pdfError
  /\ pdfError' = TRUE
  /\ ev' = {}
  /\ UNCHANGED <<routerVars, envVars, wizVars, createPending, progVars,
                 taskQuery, pdfUrl, previewFetches, pdfPending, tasksQuery,
                 savedFiles, objectUrls>>

\* ------------------------------------------------------------ history list
\* HistoryPage.tsx:67-73 (refetch every 60 s while mounted) and :88 (Try
\* Again): refetch().
HistoryRefetchAfterTeardown_Mutant ==
  /\ StartFetch(tasksQuery) # tasksQuery
  /\ tasksQuery' = StartFetch(tasksQuery)
  /\ ev' = IF Issued(tasksQuery, tasksQuery')
           THEN {Event("listTasks", NoId, "refetch")}
           ELSE {}
  /\ UNCHANGED <<routerVars, envVars, wizVars, createPending, progVars,
                 taskQuery, resVars, pdfPending, savedFiles, objectUrls>>
HistoryRefetch ==
  /\ mounted.page = "history"
  /\ StartFetch(tasksQuery) # tasksQuery
  /\ tasksQuery' = StartFetch(tasksQuery)
  /\ ev' = IF Issued(tasksQuery, tasksQuery')
           THEN {Event("listTasks", NoId, "refetch")}
           ELSE {}
  /\ UNCHANGED <<routerVars, envVars, wizVars, createPending, progVars,
                 taskQuery, resVars, pdfPending, savedFiles, objectUrls>>

\* api.listTasks resolved (api/client.ts:57-60) with the backend's tasks.
ListResolve ==
  /\ tasksQuery.fetchStatus = "inflight"
  /\ tasksQuery' = OnFetchSuccess(tasksQuery, backend)
  /\ ev' = {}
  /\ UNCHANGED <<routerVars, envVars, wizVars, createPending, progVars,
                 taskQuery, resVars, pdfPending, savedFiles, objectUrls>>

ListReject ==
  /\ tasksQuery.fetchStatus = "inflight"
  /\ tasksQuery' = OnFetchFailure(tasksQuery)
  /\ ev' = {}
  /\ UNCHANGED <<routerVars, envVars, wizVars, createPending, progVars,
                 taskQuery, resVars, pdfPending, savedFiles, objectUrls>>

ListRetry ==
  /\ tasksQuery.fetchStatus = "retryWait"
  /\ IF tasksQuery.retryCancelled
     THEN /\ tasksQuery' = [tasksQuery EXCEPT !.fetchStatus = "idle",
                                              !.error = TRUE]
          /\ ev' = {}
     ELSE /\ tasksQuery' = [tasksQuery EXCEPT !.fetchStatus = "inflight"]
          /\ ev' = {Event("listTasks", NoId, "retry")}
  /\ UNCHANGED <<routerVars, envVars, wizVars, createPending, progVars,
                 taskQuery, resVars, pdfPending, savedFiles, objectUrls>>

\* HistoryPage.tsx:58-64 behind the View button of a listed task (:126-134).
handleViewTaskAlwaysResult_Mutant(id) ==
  /\ OnPage("history")
  /\ ~tasksQuery.error
  /\ IsSome(tasksQuery.data)
  /\ Val(tasksQuery.data)[id] # "none"
  /\ location' = Route("result", id)
  /\ ev' = {Event("navigate", id, location'.page)}
  /\ UNCHANGED <<mounted, envVars, wizVars, createPending, progVars, taskQuery,
                 resVars, pdfPending, tasksQuery, savedFiles, objectUrls>>
handleViewTask(id) ==
  /\ OnPage("history")
  /\ ~tasksQuery.error
  /\ IsSome(tasksQuery.data)
  /\ Val(tasksQuery.data)[id] # "none"
  /\ location' = IF Val(tasksQuery.data)[id] = "completed"
                 THEN Route("result", id) ELSE Route("progress", id)
  /\ ev' = {Event("navigate", id, location'.page)}
  /\ UNCHANGED <<mounted, envVars, wizVars, createPending, progVars, taskQuery,
                 resVars, pdfPending, tasksQuery, savedFiles, objectUrls>>

\* ------------------------------------------------------------- environment
\* A task created through another client of the backend.
ExternalCreate(id) ==
  /\ backend[id] = "none"
  /\ backend' = [backend EXCEPT ![id] = "pending"]
  /\ ev' = {}
  /\ UNCHANGED <<routerVars, storage, wizVars, createPending, progVars,
                 taskQuery, resVars, pdfPending, tasksQuery, savedFiles,
                 objectUrls>>

\* The backend job moves the task forward.
BackendAdvance(id, s) ==
  /\ s \in StatusAfter(backend[id])
  /\ backend' = [backend EXCEPT ![id] = s]
  /\ ev' = {}
  /\ UNCHANGED <<routerVars, storage, wizVars, createPending, progVars,
                 taskQuery, resVars, pdfPending, tasksQuery, savedFiles,
                 objectUrls>>

\* ------------------------------------------------------------ specification
\* The end-to-end scenario of spec section 8, followed step by step: a
\* valid draft is submitted (1), createTask answers t1 and the wizard
\* navigates (2), the polling view is mounted (3), two polls answer
\* processing (4, 5), a poll answers completed (6), the result viewer is
\* mounted (7), the download action is used (8) and its file saved (9). Any
\* step outside the scenario (another poll, a failed request, the user
\* leaving) ends it (-1).
ScenarioId == "t1"

Track ==
  LET t  == ScenarioId
      q  == taskQuery[t]
      q2 == taskQuery'[t]
      reload == \E r \in Routes : Event("openUrl", r.id, r.page) \in ev'
      quiet ==
        /\ ~reload
        /\ location' = location /\ mounted' = mounted
        /\ createPending' = createPending /\ savedFiles' = savedFiles
        /\ taskQuery' = taskQuery /\ previewFetches' = previewFetches
        /\ Cardinality(Downloads(pdfPending')) = Cardinality(Downloads(pdfPending))
      issued ==
        /\ location' = location /\ mounted' = mounted
        /\ Issued(q, q2) /\ q.fetchStatus = "idle"
        /\ q2.data = q.data /\ q2.error = q.error
      answered(st) ==
        /\ q.fetchStatus = "inflight" /\ q2.fetchStatus = "idle"
        /\ ~q2.error /\ TaskStatus(q2) = st
      stay(cond, to) == IF cond /\ ~reload THEN to
                        ELSE IF quiet THEN run ELSE -1
      poll(st, to)   == IF answered(st) THEN to
                        ELSE IF quiet \/ issued THEN run ELSE -1
  IN CASE run = 0 -> IF Len(createPending') > Len(createPending) THEN 1
                     ELSE IF quiet /\ wizardFormSchema(values').success THEN 0
                     ELSE -1
       [] run = 1 -> stay(/\ backend[t] = "none" /\ backend'[t] = "pending"
                          /\ location' = Route("progress", t)
                          /\ createPending' = <<>>, 2)
       [] run = 2 -> stay(mounted' = Route("progress", t) /\ mounted # mounted', 3)
       [] run = 3 -> poll("processing", 4)
       [] run = 4 -> poll("processing", 5)
       [] run = 5 -> poll("completed", 6)
       [] run = 6 -> stay(mounted' = Route("result", t) /\ mounted # mounted', 7)
       [] run = 7 -> stay(Cardinality(Downloads(pdfPending'))
                            > Cardinality(Downloads(pdfPending)), 8)
       [] run = 8 -> stay(savedFiles' # savedFiles, 9)
       [] run = 9 -> stay(FALSE, 9)
       [] OTHER   -> -1

\* The app freshly loaded on the landing page (routes, index route).
Init ==
  /\ location = Route("landing", NoId)
  /\ mounted = Route("landing", NoId)
  /\ storage = None
  /\ backend = [id \in TaskIds |-> "none"]
  /\ currentStep = 0
  /\ values = defaultValues
  /\ isSubmitting = FALSE
  /\ createPending = <<>>
  /\ hasUserInfo = FALSE
  /\ userInfoDialogOpen = FALSE
  /\ taskQuery = [id \in TaskIds |-> EmptyQuery]
  /\ tasksQuery = EmptyQuery
  /\ pdfUrl = None
  /\ pdfError = FALSE
  /\ pdfPending = <<>>
  /\ navCount = 0
  /\ previewFetches = 0
  /\ savedFiles = {}
  /\ objectUrls = 0
  /\ ev = {}
  /\ run = -1

\* The drafts WizardProvider can be mounted with through its defaultValues
\* prop (WizardContext.tsx:29, :37-50): each company name absent or a text,
\* the language absent, one of the offered ones or a string outside the
\* enum, the sections a list without repetition.
RECURSIVE Lists(_)
Lists(S) ==
  {<<>>} \cup UNION { { <<x>> \o l : l \in Lists(S \ {x}) } : x \in S }
Drafts ==
  [ targetCompany : {None} \cup { Some(t) : t \in Texts },
    userCompany   : {None} \cup { Some(t) : t \in Texts },
    language      : {None, Some("Klingon")} \cup { Some(l) : l \in Languages },
    sections      : { Some(l) : l \in Lists(SectionIds) } ]

\* The wizard page mounted with one of these drafts.
InitDraft ==
  /\ location = Route("generate", NoId)
  /\ mounted = Route("generate", NoId)
  /\ storage = None
  /\ backend = [id \in TaskIds |-> "none"]
  /\ currentStep = 0
  /\ \E d \in Drafts : values = RegisterStep(d, 0)
  /\ isSubmitting = FALSE
  /\ createPending = <<>>
  /\ hasUserInfo = FALSE
  /\ userInfoDialogOpen = FALSE
  /\ taskQuery = [id \in TaskIds |-> EmptyQuery]
  /\ tasksQuery = EmptyQuery
  /\ pdfUrl = None
  /\ pdfError = FALSE
  /\ pdfPending = <<>>
  /\ navCount = 0
  /\ previewFetches = 0
  /\ savedFiles = {}
  /\ objectUrls = 0
  /\ ev = {}
  /\ run = IF wizardFormSchema(values).success THEN 0 ELSE -1

\* The steps the app as composed can take. WizardLayout mounts the provider
\* with the default draft, from which the wizard cannot leave its first step
\* (isValid is the whole schema and userCompany has no input there), so the
\* actions of WizardNext need a draft of InitDraft to fire.
AppNext ==
  \/ \E r \in Routes : OpenUrl(r) /\ run' = Track
  \/ CommitRoute /\ run' = Track
  \/ \E p \in Pages : ClickLink(p) /\ run' = Track
  \/ \E t \in Texts : TypeTargetCompany(t) /\ run' = Track
  \/ SubmitForm /\ run' = Track
  \/ \E p \in Profiles : ProfileSubmit(p) /\ run' = Track
  \/ DismissDialog /\ run' = Track
  \/ RefetchTick /\ run' = Track
  \/ \E id \in TaskIds, st \in Statuses : \E snap \in Snapshots(st) :
       GetStatusResolve(id, snap) /\ run' = Track
  \/ \E id \in TaskIds : GetStatusReject(id) /\ run' = Track
  \/ \E id \in TaskIds : RetryFetch(id) /\ run' = Track
  \/ \E id \in TaskIds : QueryGc(id) /\ run' = Track
  \/ handleDownload /\ run' = Track
  \/ \E i \in 1..(MaxDownloads + NavCap) : PdfResolve(i) /\ run' = Track
  \/ \E i \in 1..(MaxDownloads + NavCap) : PdfReject(i) /\ run' = Track
  \/ DocumentLoadError /\ run' = Track
  \/ HistoryRefetch /\ run' = Track
  \/ ListResolve /\ run' = Track
  \/ ListReject /\ run' = Track
  \/ ListRetry /\ run' = Track
  \/ \E id \in TaskIds : handleViewTask(id) /\ run' = Track
  \/ \E id \in TaskIds : ExternalCreate(id) /\ run' = Track
  \/ \E id \in TaskIds, s \in Statuses : BackendAdvance(id, s) /\ run' = Track

WizardNext ==
  \/ \E t \in Texts : TypeUserCompany(t) /\ run' = Track
  \/ \E l \in Languages : SelectLanguage(l) /\ run' = Track
  \/ \E sid \in SectionIds : ToggleSection(sid) /\ run' = Track
  \/ handleNext /\ run' = Track
  \/ handleBack /\ run' = Track
  \/ \E i \in 1..MaxCreates, id \in TaskIds :
       CreateTaskResolve(i, id) /\ run' = Track
  \/ \E i \in 1..MaxCreates : CreateTaskReject(i) /\ run' = Track

Next == AppNext \/ WizardNext

\* The app as composed.
Spec == Init /\ [][AppNext]_vars

\* The app with the wizard mounted on an arbitrary draft.
SpecDraft == InitDraft /\ [][Next]_vars

\* The polling view of t1 just opened by a requester whose profile is
\* stored, and the answers of a backend that reports any progress value:
\* the sub-stage list of ProgressPage.tsx:102-107 over its whole input range.
StoredProfile == [name |-> "aa", email |-> "a@b.co", designation |-> "aa"]

LogSnapshots ==
  [ status : {"pending", "processing"},
    progress : {None} \cup { Some(p) : p \in 0..MaxProgress },
    error : {None} ]

InitLogs ==
  /\ location = Route("progress", ScenarioId)
  /\ mounted = Route("progress", ScenarioId)
  /\ storage = Some(StoredProfile)
  /\ backend = [id \in TaskIds |-> "pending"]
  /\ currentStep = 0
  /\ values = defaultValues
  /\ isSubmitting = FALSE
  /\ createPending = <<>>
  /\ hasUserInfo = TRUE
  /\ userInfoDialogOpen = FALSE
  /\ taskQuery = [id \in TaskIds |-> StartFetch(EmptyQuery)]
  /\ tasksQuery = EmptyQuery
  /\ pdfUrl = None
  /\ pdfError = FALSE
  /\ pdfPending = <<>>
  /\ navCount = 0
  /\ previewFetches = 0
  /\ savedFiles = {}
  /\ objectUrls = 0
  /\ ev = {Event("openUrl", ScenarioId, "progress"),
           Event("getTaskStatus", ScenarioId, "progress")}
  /\ run = -1

NextLogs ==
  \/ RefetchTick /\ run' = Track
  \/ \E snap \in LogSnapshots : StatusAnswer(ScenarioId, snap) /\ run' = Track

SpecLogs == InitLogs /\ [][NextLogs]_vars

\* The same polling view with a backend that may answer any status with any
\* of the progress values absent, 0, 45 and 100, in any order, and whose
\* requests may fail: the transitions of ProgressPage.tsx:84-99 and 179-194
\* over snapshots whose progress is unrelated to their status.
PollSnapshots ==
  [ status : Statuses,
    progress : {None} \cup { Some(p) : p \in {0, 45, MaxProgress} },
    error : {None} ]

NextPoll ==
  \/ RefetchTick /\ run' = Track
  \/ \E snap \in PollSnapshots : StatusAnswer(ScenarioId, snap) /\ run' = Track
  \/ GetStatusReject(ScenarioId) /\ run' = Track
  \/ RetryFetch(ScenarioId) /\ run' = Track

SpecPoll == InitLogs /\ [][NextPoll]_vars

\* The polling view of t1 with a stored profile, kept mounted, against a
\* backend that advances on its own. Fairness: the 3 s interval fires
\* (ProgressPage.tsx:88), every request ends in an answer or, after the 30 s
\* timeout (api/client.ts:7), in a failure, and the retry delay elapses
\* (App.tsx:10).
LiveResolve ==
  \E snap \in Snapshots(backend[ScenarioId]) :
    GetStatusResolve(ScenarioId, snap)

LiveAnswer == LiveResolve \/ GetStatusReject(ScenarioId)

NextLive ==
  \/ RefetchTick /\ run' = Track
  \/ LiveResolve /\ run' = Track
  \/ GetStatusReject(ScenarioId) /\ run' = Track
  \/ RetryFetch(ScenarioId) /\ run' = Track
  \/ \E s \in Statuses : BackendAdvance(ScenarioId, s) /\ run' = Track

SpecLive ==
  /\ InitLogs
  /\ [][NextLive]_vars
  /\ WF_vars(RefetchTick /\ run' = Track)
  /\ WF_vars(LiveAnswer /\ run' = Track)
  /\ WF_vars(RetryFetch(ScenarioId) /\ run' = Track)

LogStatus(logs, id) ==
  logs[CHOOSE i \in 1..Len(logs) : logs[i].id = id].status

\* ================================================================ properties
PollingViewOf(id) == mounted = Route("progress", id)
StatusRequested(id) ==
  \E src \in {"progress", "result", "enable", "tick", "retry"} :
    Event("getTaskStatus", id, src) \in ev
Submitted   == Event("submit", NoId, "") \in ev
CreateBodies == { e.x : e \in { f \in ev : f.op = "createTask" } }
CreateIssued == CreateBodies # {}

\* The field rules of the draft, written out (WizardContext.tsx:7-12).
TargetOk(v)   == v.targetCompany # None /\ Len(Val(v.targetCompany)) >= 2
UserOk(v)     == v.userCompany # None /\ Len(Val(v.userCompany)) >= 2
LanguageOk(v) ==
  v.language \in { Some(l) : l \in {"English", "Spanish", "French", "German",
                                     "Italian", "Portuguese", "Chinese",
                                     "Japanese", "Korean", "Russian"} }
FieldRules(v) == TargetOk(v) /\ UserOk(v) /\ LanguageOk(v)

\* C1: a submit event of the wizard form runs the submit handler, and with
\* it createTask, exactly when the draft satisfies every field rule
\* (targetCompany and userCompany of at least 2 characters, language one of
\* the ten allowed values); the request body is the draft as entered.
C1_SubmitIffValid ==
  /\ Submitted => (CreateIssued <=> FieldRules(values))
  /\ CreateIssued => Submitted
  /\ CreateIssued =>
       CreateBodies = { JsonBody([targetCompany |-> Val(values.targetCompany),
                                  userCompany |-> Val(values.userCompany),
                                  language |-> Val(values.language),
                                  sections |-> Val(values.sections)]) }

\* A submit is blocked by a single invalid field (the target company, one
\* character long) while an earlier, valid submit is still in flight.
C1_Witness ==
  /\ Submitted /\ ~CreateIssued
  /\ ~TargetOk(values) /\ UserOk(values) /\ LanguageOk(values)
  /\ Len(createPending) = 1

\* C2: within one mount of the polling view the navigation to the result
\* route fires at most once, however many polls observe a completed
\* snapshot before the view is torn down (and exactly once when one does).
C2_NavigateOnce ==
  \A id \in TaskIds :
    PollingViewOf(id) =>
      /\ navCount <= 1
      /\ TaskStatus(QueryOf(id)) = "completed" => navCount = 1

\* C3: downloadPdf is issued for a task only when the snapshot held for it
\* is completed: neither the fetch on entering the result viewer nor the
\* manual download is issued while it is pending, processing or unknown.
C3_DownloadOnlyCompleted ==
  \A id \in TaskIds, k \in {"preview", "download"} :
    Event("downloadPdf", id, k) \in ev => TaskStatus(QueryOf(id)) = "completed"

\* C4: once a getTaskStatus call of the polling view has failed (a failure
\* is counted or the error is latched), no further getTaskStatus request is
\* issued for that view.
C4_NoRequestAfterFailure ==
  \A id \in TaskIds :
    (PollingViewOf(id) /\ hasUserInfo /\ StatusRequested(id)) =>
      (QueryOf(id).failureCount = 0 /\ ~QueryOf(id).error)

\* C5: once the polling view shows the failure view it keeps showing it,
\* and does not navigate to the result, for as long as the user stays on
\* the page (no reload, no navigation away).
C5_FailureViewTerminal ==
  [][ \A id \in TaskIds :
        ( /\ OnPage("progress") /\ mounted.id = id
          /\ ProgressView(QueryOf(id)) = "failed"
          /\ mounted' = mounted
          /\ Event("openUrl", id, "progress") \notin ev' )
        => ( /\ ProgressView(taskQuery'[id]) = "failed"
             /\ location' # Route("result", id) ) ]_vars

\* C6 (as stated): the failure view shows exactly X when the failed
\* snapshot carries an error field with value X, and the default message
\* when the snapshot's error is absent or when the poll itself errored.
C6_MessageAsStated ==
  \A id \in TaskIds :
    LET q == QueryOf(id) IN
    (PollingViewOf(id) /\ ProgressView(q) = "failed") =>
      /\ \A x \in {"", "X"} :
           (TaskStatus(q) = "failed" /\ Val(q.data).error = Some(x))
             => FailureMessage(q) = x
      /\ (TaskStatus(q) = "failed" /\ Val(q.data).error = None)
           => FailureMessage(q) = DefaultMessage
      /\ q.error => FailureMessage(q) = DefaultMessage

\* C6: the failure view shows exactly X when the snapshot held is failed
\* with a non-empty error X, also after a later poll errored; it shows the
\* default message when the snapshot's error is absent or the empty string,
\* and when the poll errored while no failed snapshot is held.
C6_FailureMessage ==
  \A id \in TaskIds :
    LET q == QueryOf(id) IN
    (PollingViewOf(id) /\ ProgressView(q) = "failed") =>
      /\ \A x \in {"X"} :
           (TaskStatus(q) = "failed" /\ Val(q.data).error = Some(x))
             => FailureMessage(q) = x
      /\ (TaskStatus(q) = "failed" /\ Val(q.data).error \in {None, Some("")})
           => FailureMessage(q) = DefaultMessage
      /\ (q.error /\ TaskStatus(q) # "failed")
           => FailureMessage(q) = DefaultMessage

\* The poll errored after a failed snapshot with error X was received: the
\* view shows X.
C6_Witness ==
  LET q == QueryOf(ScenarioId) IN
  /\ OnPage("progress") /\ mounted.id = ScenarioId
  /\ q.error /\ TaskStatus(q) = "failed" /\ Val(q.data).error = Some("X")
  /\ FailureMessage(q) = "X"

ShownTask == QueryOf(ScenarioId).data
ShownProgressAbove(n) ==
  /\ IsSome(ShownTask) /\ IsSome(Val(ShownTask).progress)
  /\ Val(Val(ShownTask).progress) > n

\* C7 (as stated): "Running analysis" is marked processing exactly when
\* progress is above 30 and not yet above 70, "Generating report" exactly
\* when progress is above 70.
C7_StagesAsStated ==
  (PollingViewOf(ScenarioId) /\ ProgressView(QueryOf(ScenarioId)) = "progress") =>
    /\ LogStatus(taskLogs(ShownTask), "analysis") = "processing"
         <=> (ShownProgressAbove(30) /\ ~ShownProgressAbove(70))
    /\ LogStatus(taskLogs(ShownTask), "report") = "processing"
         <=> ShownProgressAbove(70)

\* C7: "Running analysis" is marked processing exactly when progress is
\* above 30 (it stays so above 70), "Generating report" exactly when
\* progress is above 70; with progress absent or 0 neither is.
C7_Stages ==
  (PollingViewOf(ScenarioId) /\ ProgressView(QueryOf(ScenarioId)) = "progress") =>
    /\ LogStatus(taskLogs(ShownTask), "analysis") = "processing"
         <=> ShownProgressAbove(30)
    /\ LogStatus(taskLogs(ShownTask), "report") = "processing"
         <=> ShownProgressAbove(70)

\* A snapshot with progress 71 is shown: both stages are processing.
C7_Witness ==
  /\ OnPage("progress")
  /\ IsSome(ShownTask) /\ Val(ShownTask).progress = Some(71)
  /\ LogStatus(taskLogs(ShownTask), "analysis") = "processing"
  /\ LogStatus(taskLogs(ShownTask), "report") = "processing"

\* C8: a draft submitted with an empty section selection reaches createTask
\* with sections = [] (present and empty) in the request body.
EmptySectionsBody ==
  "{\"targetCompany\":\"" \o Val(values.targetCompany)
    \o "\",\"userCompany\":\"" \o Val(values.userCompany)
    \o "\",\"language\":\"" \o Val(values.language)
    \o "\",\"sections\":[]}"

C8_EmptySectionsPreserved ==
  (CreateIssued /\ values.sections = Some(<<>>)) =>
    CreateBodies = {EmptySectionsBody}

C8_Witness ==
  /\ CreateIssued
  /\ values.sections = Some(<<>>)
  /\ EmptySectionsBody \in CreateBodies

C10_NoActivityWithoutProfile ==
  \A id \in TaskIds :
    (PollingViewOf(id) /\ ~hasUserInfo) =>
      /\ ~StatusRequested(id)
      /\ ProgressView(QueryOf(id)) # "failed"
      /\ navCount = 0
      /\ location # Route("result", id)

StepBack == Event("setCurrentStep", NoId, "back")
RejectedLive == Event("createTaskRejected", NoId, "live")
LiveCreates == { i \in 1..Len(createPending) : createPending[i].live }

\* C11: the Next action is available exactly when the field of the current
\* step is valid: on the first step it depends only on targetCompany, on
\* the second only on userCompany.
C11_NextPerStep ==
  OnPage("generate") =>
    /\ currentStep = 0 => (ENABLED handleNext <=> TargetOk(values))
    /\ currentStep = 1 => (ENABLED handleNext <=> UserOk(values))

BackStepEffect ==
  StepBack \in ev' =>
    /\ currentStep' = currentStep - 1
    /\ values' = values
    /\ isSubmitting' = isSubmitting
    /\ createPending' = createPending

RejectEffect ==
  RejectedLive \in ev' =>
    /\ location' = location /\ mounted' = mounted
    /\ currentStep' = currentStep
    /\ values' = values
    /\ ~isSubmitting'

\* C12: from any step after the first the Back action is available,
\* whatever the validity of the draft and whether or not a submission is in
\* flight; it moves the cursor to the previous step and leaves every field
\* value, and the submitting flag, as they are.
C12_BackAlwaysPermitted ==
  /\ []((OnPage("generate") /\ currentStep > 0) => ENABLED handleBack)
  /\ [][BackStepEffect]_vars

\* Back was used on an invalid draft while a submission is in flight.
C12_Witness ==
  /\ StepBack \in ev
  /\ ~FieldRules(values)
  /\ isSubmitting /\ LiveCreates # {}

\* C13: when createTask rejects for the mounted wizard nothing navigates,
\* the step cursor and the draft are unchanged and the submitting flag is
\* reset, so that the same (valid) draft can be submitted again.
C13_RejectSwallowed ==
  /\ [][RejectEffect]_vars
  /\ []((RejectedLive \in ev /\ OnPage("generate") /\ FieldRules(values))
          => ENABLED SubmitForm)

\* createTask was rejected on the last step: the Submit button is usable
\* again.
C13_Witness ==
  /\ RejectedLive \in ev
  /\ OnPage("generate") /\ currentStep = Len(steps) - 1
  /\ FieldRules(values) /\ ~isSubmitting
  /\ LiveCreates = {}

C15_PreviewFetchOnce ==
  mounted.page = "result" =>
    /\ previewFetches <= 1
    /\ previewFetches = 1 <=> TaskStatus(QueryOf(mounted.id)) = "completed"

\* The screen of a completed task whose artifact is still being fetched.
FetchingScreen == <<"main", "loading">>

\* C16: a task that is pending or processing is never presented with the
\* same screen as a completed task whose artifact is being fetched: "task
\* not completed" is a preview state of its own, distinct from "loading"
\* and from "fetch failed".
C16_NotCompletedDistinct ==
  (mounted.page = "result"
     /\ TaskStatus(QueryOf(mounted.id)) \in {"pending", "processing"})
  => ResultScreen(QueryOf(mounted.id), pdfUrl, pdfError) # FetchingScreen

PreviewFailed ==
  /\ mounted.page = "result"
  /\ pdfError
  /\ TaskStatus(QueryOf(mounted.id)) = "completed"

\* C17: in every state in which the preview of a completed task has failed
\* (the fetch rejected or the document failed to render) the manual
\* download is available.
C17_DownloadAfterPreviewFailure ==
  PreviewFailed => DownloadAvailable(QueryOf(mounted.id))

\* C18: every object URL the result viewer creates is released: once the
\* viewer has been discarded no handle created by it remains unreleased.
C18_HandlesReleased == mounted.page # "result" => objectUrls = 0

\* The user has left the polling view: they followed a link to another
\* page, whose lazily loaded element has not replaced the polling view yet.
UserLeftPolling ==
  /\ mounted.page = "progress"
  /\ location.page \in {"landing", "generate", "history"}

PollingActivity(events) ==
  \E id \in TaskIds :
    \/ \E src \in {"enable", "tick", "retry"} :
         Event("getTaskStatus", id, src) \in events
    \/ Event("navigate", id, "result") \in events

LeftStaysQuiet ==
  (UserLeftPolling /\ mounted' = mounted) => ~PollingActivity(ev')

\* C19: once the user has navigated away from the polling view, that view
\* issues no further getTaskStatus request and no response arriving later
\* makes it navigate.
C19_NoPollingAfterLeaving == [][LeftStaysQuiet]_vars

Resolved == { e \in ev : e.op = "taskStatus" }

WithProgress(q, p) ==
  IF HasTask(q)
  THEN [q EXCEPT !.data = Some([Val(q.data) EXCEPT !.progress = p])]
  ELSE q

PollProgressValues == { s.progress : s \in PollSnapshots }

TransitionsIgnoreProgress ==
  LET q == QueryOf(ScenarioId) IN
    /\ \A p \in PollProgressValues :
         ProgressView(WithProgress(q, p)) = ProgressView(q)
    /\ ProgressView(q) = "failed" => (TaskStatus(q) = "failed" \/ q.error)
    /\ Event("navigate", ScenarioId, "result") \in ev
         => TaskStatus(q) = "completed"
    /\ navCount = 0 => location = Route("progress", ScenarioId)

FailureEnteredByStatusOrError ==
  LET q  == QueryOf(ScenarioId)
      q2 == taskQuery'[ScenarioId]
  IN (ProgressView(q) # "failed" /\ ProgressView(q2) = "failed") =>
       \/ TaskStatus(q2) = "failed" /\ q2.data # q.data
       \/ q2.error /\ q2.data = q.data /\ q.fetchStatus # "idle"

\* C21: whatever the progress values of the snapshots (absent, 0, lower
\* than before, 100), the polling view navigates to the result only on a
\* snapshot whose status is completed, and enters the failure view only on
\* a snapshot whose status is failed or when a poll has failed.
C21_ProgressNeverGates ==
  /\ [](PollingViewOf(ScenarioId) => TransitionsIgnoreProgress)
  /\ [][FailureEnteredByStatusOrError]_vars

\* A processing snapshot with progress 100 replaced an earlier snapshot:
\* the view stays on the progress display and has not navigated.
C21_Witness ==
  /\ PollingViewOf(ScenarioId)
  /\ Event("taskData", ScenarioId, "replaced") \in ev
  /\ TaskStatus(QueryOf(ScenarioId)) = "processing"
  /\ Val(QueryOf(ScenarioId).data).progress = Some(MaxProgress)
  /\ ProgressView(QueryOf(ScenarioId)) = "progress"
  /\ location = Route("progress", ScenarioId)
  /\ navCount = 0

ProfileWritten(events) ==
  \E id \in TaskIds : Event("setItem", id, "userInfo") \in events

\* The rules of the profile form, written out.
ProfileRules(p) ==
  /\ Len(p.name) >= 2
  /\ p.email = "a@b.co"
  /\ Len(p.designation) >= 2

ProfileKeyDiscipline ==
  /\ ProfileWritten(ev') =>
       /\ storage = None
       /\ IsSome(storage') /\ ProfileRules(Val(storage'))
  /\ storage' # storage => ProfileWritten(ev')
  /\ (mounted' # mounted /\ mounted'.page = "progress") =>
       (userInfoDialogOpen' <=> storage' = None)
  /\ \A r \in Routes :
       (r.page = "progress" /\ Event("openUrl", r.id, r.page) \in ev') =>
         (userInfoDialogOpen' <=> storage' = None)

ListRequestedByTimer(events) ==
  \E src \in {"refetch", "retry"} : Event("listTasks", NoId, src) \in events

NoListRequestAfterTeardown ==
  mounted.page # "history" => ~ListRequestedByTimer(ev')

\* C23: once the history view has been torn down its 60 s timer is
\* cancelled: the refresh cannot fire and no listTasks request is issued by
\* it any more.
C23_ListTimerCancelled ==
  /\ [](mounted.page # "history" => ~ENABLED HistoryRefetch)
  /\ [][NoListRequestAfterTeardown]_vars

\* The history view has just been torn down.
C23_Witness ==
  /\ Event("unmount", NoId, "history") \in ev
  /\ mounted.page # "history"
  /\ tasksQuery.fetchStatus = "idle"

PollIssued ==
  \E src \in {"tick", "retry"} : Event("getTaskStatus", ScenarioId, src) \in ev

StillRunning ==
  /\ PollingViewOf(ScenarioId) /\ hasUserInfo
  /\ TaskStatus(QueryOf(ScenarioId)) \in {"pending", "processing"}

\* The backend eventually answers: a request that is in flight again and
\* again is eventually answered with a snapshot.
BackendAnswers == SF_vars(LiveResolve /\ run' = Track)

\* C24: while the latest snapshot is pending or processing another
\* getTaskStatus is eventually issued; and if the backend eventually
\* answers, a completed task leads to the navigation to the result and a
\* failed task to the failure view.
C24_PollingLive ==
  /\ StillRunning ~> (PollIssued \/ ~StillRunning)
  /\ BackendAnswers =>
       /\ (backend[ScenarioId] = "completed")
            ~> (location = Route("result", ScenarioId))
       /\ (backend[ScenarioId] = "failed")
            ~> (ProgressView(QueryOf(ScenarioId)) = "failed")

\* A processing snapshot is held and the next poll has just been issued.
C24_Witness ==
  /\ StillRunning
  /\ TaskStatus(QueryOf(ScenarioId)) = "processing"
  /\ PollIssued

\* C25: starting from the default draft, once a target company of length
\* >= 2 has been entered on the first step the Next action is enabled.
C25_NextAfterTargetCompany ==
  (OnPage("generate") /\ currentStep = 0 /\ TargetOk(values))
    => ENABLED handleNext

\* C26: in every state of the polling view in which no requester profile
\* has been captured or found in storage, the capture modal is open.
C26_ModalBlocking ==
  (mounted.page = "progress" /\ ~hasUserInfo) => userInfoDialogOpen

StepNext == Event("setCurrentStep", NoId, "next")
LastStep == Len(steps) - 1

CursorInRange ==
  /\ currentStep \in 0..LastStep
  /\ (OnPage("generate") /\ currentStep = LastStep) => ~ENABLED handleNext
  /\ (OnPage("generate") /\ currentStep = 0) => ~ENABLED handleBack

CursorMovesByOne ==
  /\ StepNext \in ev' => currentStep' = currentStep + 1
  /\ StepBack \in ev' => currentStep' = currentStep - 1
  /\ (StepNext \notin ev' /\ StepBack \notin ev') =>
       currentStep' \in {currentStep, 0}

\* C27: the step cursor is always 0, 1 or 2; Next does nothing on the last
\* step and Back nothing on the first; every other Next or Back moves the
\* cursor by exactly one, and nothing else moves it except a fresh mount of
\* the wizard, which starts at 0.
C27_CursorWithinSteps == []CursorInRange /\ [][CursorMovesByOne]_vars

\* Next has just moved the cursor to the last step.
C27_Witness ==
  /\ OnPage("generate")
  /\ StepNext \in ev
  /\ currentStep = LastStep
  /\ ~ENABLED handleNext

SelectedSections(v) == SeqToSet(ZArrayDefault(v.sections))
NoDuplicates(l) == Cardinality(SeqToSet(l)) = Len(l)
Toggled(events) == { e.x : e \in { f \in events : f.op = "toggleSection" } }

SelectionIsASet ==
  LET cur == ZArrayDefault(values.sections) IN
    /\ NoDuplicates(cur)
    /\ \A sid \in SectionIds :
         /\ NoDuplicates(handleSectionToggle(cur, sid))
         /\ SeqToSet(handleSectionToggle(handleSectionToggle(cur, sid), sid))
              = SeqToSet(cur)

ToggleEffect ==
  \A sid \in Toggled(ev') :
    /\ SelectedSections(values') =
         IF sid \in SelectedSections(values)
         THEN SelectedSections(values) \ {sid}
         ELSE SelectedSections(values) \cup {sid}
    /\ values'.targetCompany = values.targetCompany
    /\ values'.userCompany = values.userCompany
    /\ values'.language = values.language
    /\ currentStep' = currentStep

\* C28: the section selection behaves as a set: the list never holds an
\* identifier twice, a toggle adds an absent identifier and removes a
\* present one, toggling the same identifier twice gives back the same set,
\* and a toggle changes no other field of the draft.
C28_SectionsAsSet == []SelectionIsASet /\ [][ToggleEffect]_vars

\* A toggle has just removed a section from a selection of two.
C28_Witness ==
  /\ OnPage("generate") /\ currentStep = LastStep
  /\ Toggled(ev) # {}
  /\ Toggled(ev) \cap SelectedSections(values) = {}
  /\ Cardinality(SelectedSections(values)) = MaxSections - 1

ViewedFromHistory(events) ==
  { e.id : e \in { f \in events : f.op = "navigate" } }

ListedStatus(id) == Val(tasksQuery.data)[id]

ViewTaskEffect ==
  OnPage("history") =>
    \A id \in ViewedFromHistory(ev') :
      /\ IsSome(tasksQuery.data) /\ ListedStatus(id) \in Statuses
      /\ location' = IF ListedStatus(id) = "completed"
                     THEN Route("result", id)
                     ELSE Route("progress", id)
      /\ \A k \in {"preview", "download"} :
           Event("downloadPdf", id, k) \notin ev'
      /\ pdfPending' = pdfPending

\* C29: viewing a task from the history list navigates to the result view
\* exactly when its listed status is completed and to the polling view of
\* that task for every other status, and issues no artifact download.
C29_ViewTaskByStatus == [][ViewTaskEffect]_vars

\* A task listed as failed has just been viewed: the location is its
\* polling view.
C29_Witness ==
  /\ mounted.page = "history"
  /\ IsSome(tasksQuery.data) /\ ListedStatus(ScenarioId) = "failed"
  /\ Event("navigate", ScenarioId, "progress") \in ev
  /\ location = Route("progress", ScenarioId)

====
